---- MODULE Spec2Model ----
(***************************************************************************)
(* Buffer pool manager with an LRU-K replacer.                             *)
(*                                                                         *)
(*   src/src/storage/buffer/buffer_pool_manager/buffer_pool_manager.rs     *)
(*   src/src/storage/buffer/lru_k_replacer/lru_k_replacer.rs               *)
(*                                                                         *)
(* The disk manager and the page type are external collaborators of the    *)
(* pool (crate::storage::disk, crate::storage::page); they are modelled    *)
(* from their interface description: a page is {page_id, is_dirty, data},  *)
(* the disk maps an allocated page id to the data last written for it.     *)
(*                                                                         *)
(* Spec          the pool's six operations, each one step                  *)
(* SpecContent   Spec and callers writing page contents through handles    *)
(* SpecReplacer  the replacer on its own, its methods called directly      *)
(* SpecLocks     threads calling the operations, lock step by lock step    *)
(***************************************************************************)
EXTENDS Integers, Sequences, FiniteSets, TLC

\* ---------------------------------------------------------------- bounds
\* BufferPoolManager::new(pool_size, replacer_k, ..): the configuration.
PoolSize == 2
K == 2
\* Page ids the disk manager hands out are 0 .. MaxPages-1.
MaxPages == 3
\* record_access is not called once current_timestamp has reached this.
MaxTimestamp == 5
\* Page contents a caller writes through a handle are 1 .. MaxData.
MaxData == 1
\* LRUKReplacer::new(num_frames, k) of a replacer used on its own: num_frames.
MaxSize == 3
\* Threads that call the pool concurrently.
NumThreads == 2

\* usize::MAX, the "infinite" backward k-distance; narrowed to the widest
\* integer of the checker, far above every timestamp the bounds allow.
USIZE_MAX == 2147483647

Frames == 0 .. (PoolSize - 1)
PageIds == 0 .. (MaxPages - 1)
Data == 0 .. MaxData

\* Option::None of an Option<FrameId>.
NoFrame == -1
\* The page id of TablePage::create_invalid_page().
INVALID_PAGE_ID == -1

VARIABLES
    pages,        \* BufferPoolManager.pages: Vec of page slots, frame f at f+1
    page_table,   \* BufferPoolManager.page_table: PageId -> FrameMetadata
    free_list,    \* BufferPoolManager.free_list: VecDeque<FrameId>
    replacer,     \* the LRUKReplacer: node_store, current_timestamp, curr_size
    disk,         \* disk manager: allocated page id -> data on disk
    next_page_id, \* disk manager: the next page id allocate_new_page returns
    deallocated,  \* disk manager: page ids given back by deallocate_page
    handles,      \* frames whose current slot object a caller holds a handle to
    aborted,      \* the process panicked
    last,         \* the last call: operation, argument, result, frame used
    lock_owner,   \* each RwLock: the thread holding its write guard, or NoThread
    thread        \* each thread: the call it is in, the lock steps left of it

vars == <<pages, page_table, free_list, replacer, disk, next_page_id,
          deallocated, handles, aborted, last, lock_owner, thread>>

\* The locks and the threads' positions. A pool operation runs as one step
\* under the caller's pool lock and returns with every guard dropped, so the
\* steps of Spec leave them as they are.
lockvars == <<lock_owner, thread>>

\* ----------------------------------------------------------- the locks
Threads == 1 .. NumThreads
NoThread == 0

\* The RwLock around the pool that its callers share.
PoolLock == <<"pool", 0>>
\* BufferPoolManager.replacer: Arc<RwLock<LRUKReplacer>>
ReplacerLock == <<"replacer", 0>>
\* BufferPoolManager.disk_manager: Arc<RwLock<DiskManager>>
DiskLock == <<"disk_manager", 0>>
\* The RwLock of the page slot of frame_id (TablePageHandle).
PageLock(frame_id) == <<"page", frame_id>>

Locks == {PoolLock, ReplacerLock, DiskLock} \cup { PageLock(f) : f \in Frames }

\* lock.write().unwrap() bound to a guard, and the drop of that guard.
Acquire(l) == [a |-> "acquire", l |-> l]
Release(l) == [a |-> "release", l |-> l]
\* lock.write().unwrap() as a temporary: the guard is dropped at the end of
\* the statement.
Guarded(l) == <<Acquire(l), Release(l)>>

\* A thread that is in no call.
Idle == [op |-> "idle", todo |-> <<>>]

\* ------------------------------------------------------------ the page
\* TablePage::create_invalid_page()
InvalidPage == [page_id |-> INVALID_PAGE_ID, is_dirty |-> FALSE, data |-> 0]

\* DiskManager::read_page(page_id): the current on-disk image, clean.
read_page(d, page_id) ==
    [page_id |-> page_id, is_dirty |-> FALSE, data |-> d[page_id]]

\* DiskManager::write_page(page): the page carries its own id. Writing the
\* invalid page stores nothing.
write_page(d, page) ==
    IF page.page_id \in DOMAIN d
    THEN [d EXCEPT ![page.page_id] = page.data]
    ELSE d

\* DiskManager::allocate_new_page(): a fresh id with a zero-initialised image.
allocate_new_page(d, id) ==
    [p \in (DOMAIN d) \cup {id} |-> IF p = id THEN 0 ELSE d[p]]

\* ------------------------------------------------------ FrameMetadata
FrameMetadata_new(frame_id) == [frame_id |-> frame_id, pin_count |-> 0]

increment_pin_count(m) == [m EXCEPT !.pin_count = @ + 1]

\* ------------------------------------------------------------ LRUKNode
LRUKNode_new == [history |-> <<>>, is_evictable |-> FALSE]

get_backwards_k_distance(node, current_timestamp) ==
    IF Len(node.history) < K
    THEN USIZE_MAX
    ELSE LET k_th_last_access == node.history[Len(node.history) - K + 1]
         IN  IF current_timestamp >= k_th_last_access
             THEN current_timestamp - k_th_last_access
             ELSE 0

has_infinite_backwards_k_distance(node) == Len(node.history) < K

\* -------------------------------------------------------- LRUKReplacer
\* HashMap::new()
EmptyMap == [x \in {} |-> x]

\* LRUKReplacer::new(num_frames, k); k is K.
LRUKReplacer_new(num_frames) ==
    [node_store |-> EmptyMap, current_timestamp |-> 0, curr_size |-> 0,
     max_size |-> num_frames]

\* Removing a key of a map.
MapRemove(m, k) == [x \in (DOMAIN m) \ {k} |-> m[x]]

\* Inserting (or overwriting) a key of a map.
MapInsert(m, k, v) == [x \in (DOMAIN m) \cup {k} |-> IF x = k THEN v ELSE m[x]]

\* The iteration orders a HashMap with key set S can produce.
Orders(S) ==
    { s \in [1 .. Cardinality(S) -> S] : \A x \in S : \E i \in DOMAIN s : s[i] = x }

\* EvictStep without the priority of the infinite tier: a node with K accesses
\* replaces the candidate whenever its distance is larger.
EvictStep_NoTierPriority(r, acc, frame_id) ==
    LET node == r.node_store[frame_id]
        k_distance == get_backwards_k_distance(node, r.current_timestamp)
    IN  IF ~node.is_evictable THEN acc
        ELSE IF has_infinite_backwards_k_distance(node)
        THEN LET first_access ==
                     IF node.history = <<>> THEN USIZE_MAX ELSE Head(node.history)
             IN  IF acc.frame_to_evict = NoFrame
                    \/ first_access < acc.earliest_timestamp_with_infinity
                 THEN [acc EXCEPT !.earliest_timestamp_with_infinity = first_access,
                                  !.frame_to_evict = frame_id]
                 ELSE acc
        ELSE IF acc.frame_to_evict = NoFrame
                \/ k_distance > acc.max_k_distance
        THEN [acc EXCEPT !.max_k_distance = k_distance,
                         !.frame_to_evict = frame_id]
        ELSE acc

\* EvictStep that keeps the first evictable node with K accesses it meets:
\* the comparison of distances is dropped.
EvictStep_FirstSeen(r, acc, frame_id) ==
    LET node == r.node_store[frame_id]
    IN  IF ~node.is_evictable THEN acc
        ELSE IF has_infinite_backwards_k_distance(node)
        THEN LET first_access ==
                     IF node.history = <<>> THEN USIZE_MAX ELSE Head(node.history)
             IN  IF acc.frame_to_evict = NoFrame
                    \/ first_access < acc.earliest_timestamp_with_infinity
                 THEN [acc EXCEPT !.earliest_timestamp_with_infinity = first_access,
                                  !.frame_to_evict = frame_id]
                 ELSE acc
        ELSE IF acc.frame_to_evict = NoFrame
        THEN [acc EXCEPT !.frame_to_evict = frame_id]
        ELSE acc

\* One iteration of the loop of evict, on the entry (frame_id, node).
EvictStep(r, acc, frame_id) ==
    LET node == r.node_store[frame_id]
        k_distance == get_backwards_k_distance(node, r.current_timestamp)
    IN  IF ~node.is_evictable THEN acc
        ELSE IF has_infinite_backwards_k_distance(node)
        THEN LET first_access ==
                     IF node.history = <<>> THEN USIZE_MAX ELSE Head(node.history)
             IN  IF acc.frame_to_evict = NoFrame
                    \/ first_access < acc.earliest_timestamp_with_infinity
                 THEN [acc EXCEPT !.earliest_timestamp_with_infinity = first_access,
                                  !.frame_to_evict = frame_id]
                 ELSE acc
        ELSE IF acc.frame_to_evict = NoFrame
                \/ (acc.frame_to_evict # NoFrame
                    /\ acc.earliest_timestamp_with_infinity = USIZE_MAX
                    /\ k_distance > acc.max_k_distance)
        THEN [acc EXCEPT !.max_k_distance = k_distance,
                         !.frame_to_evict = frame_id]
        ELSE acc

RECURSIVE EvictScan(_, _, _, _)
EvictScan(r, order, i, acc) ==
    IF i > Len(order) THEN acc
    ELSE EvictScan(r, order, i + 1, EvictStep(r, acc, order[i]))

\* evict that removes the chosen node and leaves curr_size as it was.
evict_KeepsSize(r, order) ==
    LET acc == EvictScan(r, order, 1,
                   [frame_to_evict |-> NoFrame,
                    earliest_timestamp_with_infinity |-> USIZE_MAX,
                    max_k_distance |-> 0])
    IN  IF acc.frame_to_evict # NoFrame
        THEN [r |-> [r EXCEPT !.node_store = MapRemove(@, acc.frame_to_evict)],
              ret |-> acc.frame_to_evict, panic |-> FALSE]
        ELSE [r |-> r, ret |-> NoFrame, panic |-> FALSE]

\* LRUKReplacer::evict, the node store iterated in `order`.
\* The result: the replacer after the call, the value returned, and whether
\* the call panicked (curr_size -= 1 at zero).
evict(r, order) ==
    LET acc == EvictScan(r, order, 1,
                   [frame_to_evict |-> NoFrame,
                    earliest_timestamp_with_infinity |-> USIZE_MAX,
                    max_k_distance |-> 0])
    IN  IF acc.frame_to_evict # NoFrame
        THEN IF r.curr_size = 0
             THEN [r |-> r, ret |-> NoFrame, panic |-> TRUE]
             ELSE [r |-> [r EXCEPT !.node_store = MapRemove(@, acc.frame_to_evict),
                                   !.curr_size = @ - 1],
                   ret |-> acc.frame_to_evict, panic |-> FALSE]
        ELSE [r |-> r, ret |-> NoFrame, panic |-> FALSE]

\* record_access that never drops the oldest timestamp.
record_access_NoTrim(r, frame_id) ==
    IF frame_id >= r.max_size
    THEN [r |-> r, panic |-> TRUE]
    ELSE LET node == IF frame_id \in DOMAIN r.node_store
                     THEN r.node_store[frame_id] ELSE LRUKNode_new
             history == Append(node.history, r.current_timestamp)
         IN  [r |-> [r EXCEPT !.node_store =
                                  MapInsert(@, frame_id, [node EXCEPT !.history = history]),
                              !.current_timestamp = @ + 1],
              panic |-> FALSE]

\* record_access that leaves current_timestamp as it was.
record_access_NoTick(r, frame_id) ==
    IF frame_id >= r.max_size
    THEN [r |-> r, panic |-> TRUE]
    ELSE LET node == IF frame_id \in DOMAIN r.node_store
                     THEN r.node_store[frame_id] ELSE LRUKNode_new
             popped == IF Len(node.history) = K
                       THEN Tail(node.history) ELSE node.history
             history == Append(popped, r.current_timestamp)
         IN  [r |-> [r EXCEPT !.node_store =
                                  MapInsert(@, frame_id, [node EXCEPT !.history = history])],
              panic |-> FALSE]

\* LRUKReplacer::record_access
record_access(r, frame_id) ==
    IF frame_id >= r.max_size
    THEN [r |-> r, panic |-> TRUE]
    ELSE LET node == IF frame_id \in DOMAIN r.node_store
                     THEN r.node_store[frame_id] ELSE LRUKNode_new
             popped == IF Len(node.history) = K
                       THEN Tail(node.history) ELSE node.history
             history == Append(popped, r.current_timestamp)
         IN  [r |-> [r EXCEPT !.node_store =
                                  MapInsert(@, frame_id, [node EXCEPT !.history = history]),
                              !.current_timestamp = @ + 1],
              panic |-> FALSE]

\* set_evictable that adjusts curr_size whether or not the flag changes.
set_evictable_AlwaysCounts(r, frame_id, e) ==
    IF frame_id >= r.max_size
    THEN [r |-> r, panic |-> TRUE]
    ELSE IF frame_id \in DOMAIN r.node_store
    THEN IF ~e /\ r.curr_size = 0
         THEN [r |-> r, panic |-> TRUE]
         ELSE [r |-> [r EXCEPT !.curr_size = IF e THEN @ + 1 ELSE @ - 1,
                               !.node_store[frame_id].is_evictable = e],
               panic |-> FALSE]
    ELSE [r |-> r, panic |-> FALSE]

\* LRUKReplacer::set_evictable
set_evictable(r, frame_id, e) ==
    IF frame_id >= r.max_size
    THEN [r |-> r, panic |-> TRUE]
    ELSE IF frame_id \in DOMAIN r.node_store
            /\ r.node_store[frame_id].is_evictable # e
    THEN IF ~e /\ r.curr_size = 0
         THEN [r |-> r, panic |-> TRUE]
         ELSE [r |-> [r EXCEPT !.curr_size = IF e THEN @ + 1 ELSE @ - 1,
                               !.node_store[frame_id].is_evictable = e],
               panic |-> FALSE]
    ELSE [r |-> r, panic |-> FALSE]

\* remove that drops the node and leaves curr_size as it was.
remove_KeepsSize(r, frame_id) ==
    IF frame_id \in DOMAIN r.node_store
    THEN IF ~r.node_store[frame_id].is_evictable
         THEN [r |-> r, panic |-> TRUE]
         ELSE [r |-> [r EXCEPT !.node_store = MapRemove(@, frame_id)],
               panic |-> FALSE]
    ELSE [r |-> r, panic |-> FALSE]

\* LRUKReplacer::remove (with decrement_current_size)
remove(r, frame_id) ==
    IF frame_id \in DOMAIN r.node_store
    THEN IF ~r.node_store[frame_id].is_evictable \/ r.curr_size = 0
         THEN [r |-> r, panic |-> TRUE]
         ELSE [r |-> [r EXCEPT !.node_store = MapRemove(@, frame_id),
                               !.curr_size = @ - 1],
               panic |-> FALSE]
    ELSE [r |-> r, panic |-> FALSE]

\* LRUKReplacer::size
size(r) == r.curr_size

\* --------------------------------------------------- BufferPoolManager
\* pages.resize_with(frame_id + 1, invalid page) when frame_id >= pages.len()
resize(pgs, frame_id) ==
    IF frame_id >= Len(pgs)
    THEN pgs \o [i \in 1 .. (frame_id + 1 - Len(pgs)) |-> InvalidPage]
    ELSE pgs

\* What the caller sees of a call: the operation and the kind of value it
\* returned ("some"/"none" of an Option, "true"/"false", "unit", "panic").
Call(op, ret) == [op |-> op, ret |-> ret]

\* A call that returns `ret` and changes nothing.
Return(op, ret) ==
    /\ last' = Call(op, ret)
    /\ UNCHANGED <<pages, page_table, free_list, replacer, disk, next_page_id,
                   deallocated, handles, aborted>>

\* A panic inside an operation: the process is gone.
Abort(op) ==
    /\ aborted' = TRUE
    /\ last' = Call(op, "panic")
    /\ UNCHANGED <<pages, page_table, free_list, replacer, disk, next_page_id,
                   deallocated, handles>>

\* BufferPoolManager::new
Init ==
    /\ pages = <<>>
    /\ page_table = EmptyMap
    /\ free_list = [i \in 1 .. PoolSize |-> i - 1]
    /\ replacer = LRUKReplacer_new(PoolSize)
    /\ disk = EmptyMap
    /\ next_page_id = 0
    /\ deallocated = {}
    /\ handles = {}
    /\ aborted = FALSE
    /\ last = Call("new", "unit")
    /\ lock_owner = [l \in Locks |-> NoThread]
    /\ thread = [t \in Threads |-> Idle]

\* The head of new_page and of fetch_page on a miss: the frame comes from the
\* front of the free list or else from the replacer's evict.
\* frame_id is NoFrame when evict returned None.
VictimFrame(order) ==
    IF free_list # <<>>
    THEN [frame_id |-> Head(free_list), free_list |-> Tail(free_list),
          r |-> replacer, panic |-> FALSE]
    ELSE LET ev == evict(replacer, order)
         IN  [frame_id |-> ev.ret, free_list |-> free_list,
              r |-> ev.r, panic |-> ev.panic]

\* The tail of new_page and of fetch_page on a miss: `page` goes into the slot
\* of frame v.frame_id, page_id into the page table with pin count 1, and the
\* access is recorded.
Install(op, v, page_id, page, holds_handle) ==
    LET frame_id == v.frame_id
        pages1 == resize(pages, frame_id)
        pt1 == MapInsert(page_table, page_id, FrameMetadata_new(frame_id))
        pt2 == [pt1 EXCEPT ![page_id] = increment_pin_count(@)]
        ra == record_access(v.r, frame_id)
    IN  IF ra.panic
        THEN Abort(op)
        ELSE /\ free_list' = v.free_list
             /\ pages' = [pages1 EXCEPT ![frame_id + 1] = page]
             /\ page_table' = pt2
             /\ replacer' = ra.r
             /\ handles' = IF holds_handle THEN handles \cup {frame_id}
                                           ELSE handles \ {frame_id}
             /\ last' = Call(op, "some")
             /\ UNCHANGED <<deallocated, aborted>>

\* BufferPoolManager::new_page; `order` is the iteration order of the
\* replacer's node store, should evict be called.
new_page(order) ==
    /\ ~aborted
    /\ LET v == VictimFrame(order)
       IN  IF v.panic THEN Abort("new_page")
           ELSE IF v.frame_id = NoFrame THEN Return("new_page", "none")
           ELSE LET page_id == next_page_id
                    disk1 == allocate_new_page(disk, page_id)
                    page == read_page(disk1, page_id)
                IN  /\ next_page_id < MaxPages
                    /\ replacer.current_timestamp < MaxTimestamp
                    /\ disk' = disk1
                    /\ next_page_id' = next_page_id + 1
                    /\ Install("new_page", v, page_id, page, FALSE)

\* BufferPoolManager::fetch_page
fetch_page(page_id, order) ==
    /\ ~aborted
    /\ IF page_id \in DOMAIN page_table
       THEN LET frame_id == page_table[page_id].frame_id
                pages1 == resize(pages, frame_id)
                ra == record_access(replacer, frame_id)
            IN  /\ replacer.current_timestamp < MaxTimestamp
                /\ IF ra.panic
                   THEN Abort("fetch_page")
                   ELSE /\ pages' = pages1
                        /\ page_table' =
                               [page_table EXCEPT ![page_id] = increment_pin_count(@)]
                        /\ replacer' = ra.r
                        /\ handles' = handles \cup {frame_id}
                        /\ last' = Call("fetch_page", "some")
                        /\ UNCHANGED <<free_list, disk, next_page_id, deallocated,
                                       aborted>>
       ELSE LET v == VictimFrame(order)
            IN  IF v.panic THEN Abort("fetch_page")
                ELSE IF v.frame_id = NoFrame THEN Return("fetch_page", "none")
                ELSE /\ replacer.current_timestamp < MaxTimestamp
                     /\ UNCHANGED <<disk, next_page_id>>
                     /\ Install("fetch_page", v, page_id, read_page(disk, page_id), TRUE)

\* BufferPoolManager::get_is_dirty
get_is_dirty(pgs, pt, page_id) == pgs[pt[page_id].frame_id + 1].is_dirty

\* set_is_dirty that only ever raises the flag: the argument OR-ed into it.
set_is_dirty_Or(pgs, pt, page_id, is_dirty) ==
    [pgs EXCEPT ![pt[page_id].frame_id + 1].is_dirty = @ \/ is_dirty]

\* BufferPoolManager::set_is_dirty: the slot of page_id's frame gets the flag.
set_is_dirty(pgs, pt, page_id, is_dirty) ==
    [pgs EXCEPT ![pt[page_id].frame_id + 1].is_dirty = is_dirty]

\* unpin_page that tells the replacer the frame is evictable on every
\* successful call, also while pins remain.
unpin_page_AlwaysEvictable(page_id, is_dirty) ==
    /\ ~aborted
    /\ IF page_id \in DOMAIN page_table /\ page_table[page_id].pin_count # 0
       THEN LET pt1 == [page_table EXCEPT ![page_id].pin_count = @ - 1]
                frame_id == pt1[page_id].frame_id
                se == set_evictable(replacer, frame_id, TRUE)
            IN  IF frame_id >= Len(pages) \/ se.panic
                THEN Abort("unpin_page")
                ELSE /\ page_table' = pt1
                     /\ pages' = set_is_dirty(pages, pt1, page_id, is_dirty)
                     /\ replacer' = se.r
                     /\ last' = Call("unpin_page", "true")
                     /\ UNCHANGED <<free_list, disk, next_page_id, deallocated,
                                    handles, aborted>>
       ELSE Return("unpin_page", "false")

\* BufferPoolManager::unpin_page
unpin_page(page_id, is_dirty) ==
    /\ ~aborted
    /\ IF page_id \in DOMAIN page_table /\ page_table[page_id].pin_count # 0
       THEN LET pt1 == [page_table EXCEPT ![page_id].pin_count = @ - 1]
                should_evict == pt1[page_id].pin_count = 0
                frame_id == pt1[page_id].frame_id
                se == IF should_evict
                      THEN set_evictable(replacer, frame_id, TRUE)
                      ELSE [r |-> replacer, panic |-> FALSE]
            IN  IF frame_id >= Len(pages) \/ se.panic
                THEN Abort("unpin_page")
                ELSE /\ page_table' = pt1
                     /\ pages' = set_is_dirty(pages, pt1, page_id, is_dirty)
                     /\ replacer' = se.r
                     /\ last' = Call("unpin_page", "true")
                     /\ UNCHANGED <<free_list, disk, next_page_id, deallocated,
                                    handles, aborted>>
       ELSE Return("unpin_page", "false")

\* The effect of BufferPoolManager::flush_page on the slots and the disk.
FlushEffect(st, pt, page_id) ==
    IF page_id \in DOMAIN pt
    THEN LET frame_id == pt[page_id].frame_id
             pages1 == resize(st.pages, frame_id)
             page == pages1[frame_id + 1]
         IN  [pages |-> [pages1 EXCEPT ![frame_id + 1].is_dirty = FALSE],
              disk |-> write_page(st.disk, page)]
    ELSE st

\* BufferPoolManager::flush_page
flush_page(page_id) ==
    /\ ~aborted
    /\ LET st == FlushEffect([pages |-> pages, disk |-> disk], page_table, page_id)
       IN  /\ pages' = st.pages
           /\ disk' = st.disk
    /\ last' = Call("flush_page", "unit")
    /\ UNCHANGED <<page_table, free_list, replacer, next_page_id, deallocated,
                   handles, aborted>>

RECURSIVE FlushEach(_, _, _)
FlushEach(st, pt, page_ids) ==
    IF page_ids = {} THEN st
    ELSE LET page_id == CHOOSE p \in page_ids : TRUE
         IN  FlushEach(FlushEffect(st, pt, page_id), pt, page_ids \ {page_id})

\* BufferPoolManager::flush_all_pages
flush_all_pages ==
    /\ ~aborted
    /\ LET st == FlushEach([pages |-> pages, disk |-> disk], page_table,
                           DOMAIN page_table)
       IN  /\ pages' = st.pages
           /\ disk' = st.disk
    /\ last' = Call("flush_all_pages", "unit")
    /\ UNCHANGED <<page_table, free_list, replacer, next_page_id, deallocated,
                   handles, aborted>>

\* delete_page that does not look at the pin count.
delete_page_IgnoresPins(page_id) ==
    /\ ~aborted
    /\ IF page_id \in DOMAIN page_table
       THEN LET frame_id == page_table[page_id].frame_id
                pages1 == resize(pages, frame_id)
            IN  /\ page_table' = MapRemove(page_table, page_id)
                /\ pages' = [pages1 EXCEPT ![frame_id + 1] = InvalidPage]
                /\ free_list' = Append(free_list, frame_id)
                /\ deallocated' = deallocated \cup {page_id}
                /\ handles' = handles \ {frame_id}
                /\ last' = Call("delete_page", "true")
                /\ UNCHANGED <<replacer, disk, next_page_id, aborted>>
       ELSE Return("delete_page", "false")

\* BufferPoolManager::delete_page
delete_page(page_id) ==
    /\ ~aborted
    /\ IF page_id \in DOMAIN page_table /\ page_table[page_id].pin_count = 0
       THEN LET frame_id == page_table[page_id].frame_id
                pages1 == resize(pages, frame_id)
            IN  /\ page_table' = MapRemove(page_table, page_id)
                /\ pages' = [pages1 EXCEPT ![frame_id + 1] = InvalidPage]
                /\ free_list' = Append(free_list, frame_id)
                /\ deallocated' = deallocated \cup {page_id}
                /\ handles' = handles \ {frame_id}
                /\ last' = Call("delete_page", "true")
                /\ UNCHANGED <<replacer, disk, next_page_id, aborted>>
       ELSE Return("delete_page", "false")

\* A caller writes content through a page handle it got from fetch_page.
write_content(frame_id, data) ==
    /\ ~aborted
    /\ frame_id \in handles
    /\ pages' = [pages EXCEPT ![frame_id + 1].data = data]
    /\ last' = Call("write_content", "unit")
    /\ UNCHANGED <<page_table, free_list, replacer, disk, next_page_id,
                   deallocated, handles, aborted>>

\* Page ids a caller may pass to fetch_page: allocated and not deallocated.
Fetchable == (DOMAIN disk) \ deallocated

\* The callers of the pool's six operations.
Next ==
    \/ \E order \in Orders(DOMAIN replacer.node_store) :
           new_page(order) /\ UNCHANGED lockvars
    \/ \E page_id \in Fetchable, order \in Orders(DOMAIN replacer.node_store) :
           fetch_page(page_id, order) /\ UNCHANGED lockvars
    \/ \E page_id \in PageIds, is_dirty \in BOOLEAN :
           unpin_page(page_id, is_dirty) /\ UNCHANGED lockvars
    \/ \E page_id \in PageIds : flush_page(page_id) /\ UNCHANGED lockvars
    \/ flush_all_pages /\ UNCHANGED lockvars
    \/ \E page_id \in PageIds : delete_page(page_id) /\ UNCHANGED lockvars

Spec == Init /\ [][Next]_vars

\* The same callers, who also write page contents through their handles.
NextContent ==
    \/ Next
    \/ \E frame_id \in Frames, data \in 1 .. MaxData :
           write_content(frame_id, data) /\ UNCHANGED lockvars

SpecContent == Init /\ [][NextContent]_vars

\* ------------------------------------------- the replacer on its own
\* The pool's part of the state, which a caller of the replacer leaves alone.
poolvars == <<pages, page_table, free_list, disk, next_page_id, deallocated,
              handles>>

\* LRUKReplacer::new(MaxSize, K), used without a pool.
InitReplacer ==
    /\ pages = <<>>
    /\ page_table = EmptyMap
    /\ free_list = <<>>
    /\ replacer = LRUKReplacer_new(MaxSize)
    /\ disk = EmptyMap
    /\ next_page_id = 0
    /\ deallocated = {}
    /\ handles = {}
    /\ aborted = FALSE
    /\ last = Call("new", "unit")
    /\ lock_owner = [l \in Locks |-> NoThread]
    /\ thread = [t \in Threads |-> Idle]

\* The outcome of a replacer call that returns nothing: res is [r, panic].
ReplacerCall(op, res) ==
    /\ replacer' = res.r
    /\ aborted' = res.panic
    /\ last' = Call(op, IF res.panic THEN "panic" ELSE "unit")
    /\ UNCHANGED <<poolvars, lockvars>>

\* A caller's replacer.record_access(frame_id, _)
do_record_access(frame_id) ==
    /\ ~aborted
    /\ replacer.current_timestamp < MaxTimestamp
    /\ ReplacerCall("record_access", record_access(replacer, frame_id))

\* A caller's replacer.set_evictable(frame_id, e)
do_set_evictable(frame_id, e) ==
    /\ ~aborted
    /\ ReplacerCall("set_evictable", set_evictable(replacer, frame_id, e))

\* A caller's replacer.remove(frame_id)
do_remove(frame_id) ==
    /\ ~aborted
    /\ ReplacerCall("remove", remove(replacer, frame_id))

\* A caller's replacer.evict(), the node store iterated in `order`.
do_evict(order) ==
    /\ ~aborted
    /\ LET ev == evict(replacer, order)
       IN  /\ replacer' = ev.r
           /\ aborted' = ev.panic
           /\ last' = Call("evict", IF ev.panic THEN "panic"
                                    ELSE IF ev.ret = NoFrame THEN "none" ELSE "some")
    /\ UNCHANGED <<poolvars, lockvars>>

\* Frame ids a caller passes: the valid ones and the first invalid one.
FrameArgs == 0 .. MaxSize

NextReplacer ==
    \/ \E frame_id \in FrameArgs : do_record_access(frame_id)
    \/ \E frame_id \in FrameArgs, e \in BOOLEAN : do_set_evictable(frame_id, e)
    \/ \E frame_id \in FrameArgs : do_remove(frame_id)
    \/ \E order \in Orders(DOMAIN replacer.node_store) : do_evict(order)

SpecReplacer == InitReplacer /\ [][NextReplacer]_vars

\* ------------------------------------------ the operations as lock steps
\* The lock steps of the head of new_page and of fetch_page on a miss
\* (lines 143-147, 203-207): none when the free list has a frame, else the
\* replacer's guard around evict().
victim_locks(free_frame) ==
    IF free_frame THEN <<>> ELSE Guarded(ReplacerLock)

\* The lock steps after the frame is chosen (lines 153-163, 211-219): the
\* disk manager's guard is bound to a local and lives to the end of the
\* function; the replacer's guard around record_access is taken under it.
install_locks ==
    <<Acquire(DiskLock)>> \o Guarded(ReplacerLock) \o <<Release(DiskLock)>>

\* BufferPoolManager::new_page; `some`: evict returned a frame.
new_page_locks(free_frame, some) ==
    victim_locks(free_frame)
        \o (IF free_frame \/ some THEN install_locks ELSE <<>>)

\* BufferPoolManager::fetch_page; `hit`: page_id is in the page table.
fetch_page_locks(hit, free_frame, some) ==
    IF hit THEN Guarded(ReplacerLock)
    ELSE victim_locks(free_frame)
             \o (IF free_frame \/ some THEN install_locks ELSE <<>>)

\* BufferPoolManager::unpin_page on a page in frame_id; `found`: the page is
\* in the page table with a pin; should_evict: its pin_count reached 0.
unpin_page_locks(frame_id, found, should_evict) ==
    IF found
    THEN Guarded(PageLock(frame_id))
             \o (IF should_evict THEN Guarded(ReplacerLock) ELSE <<>>)
    ELSE <<>>

\* BufferPoolManager::flush_page on a page in frame_id; `found`: the page is
\* in the page table.
flush_page_locks(frame_id, found) ==
    IF found
    THEN Guarded(PageLock(frame_id)) \o Guarded(DiskLock)
             \o Guarded(PageLock(frame_id))
    ELSE <<>>

\* BufferPoolManager::flush_all_pages; frame_ids: the frames of the page
\* table's keys, in the order of the loop.
RECURSIVE flush_all_pages_locks(_)
flush_all_pages_locks(frame_ids) ==
    IF frame_ids = <<>> THEN <<>>
    ELSE flush_page_locks(Head(frame_ids), TRUE)
             \o flush_all_pages_locks(Tail(frame_ids))

\* BufferPoolManager::delete_page; `found`: the page is in the page table
\* with pin_count 0.
delete_page_locks(found) ==
    IF found THEN Guarded(DiskLock) ELSE <<>>

\* A caller's call of a pool operation: the pool's write lock around it.
PoolCall(body) == <<Acquire(PoolLock)>> \o body \o <<Release(PoolLock)>>

\* Thread t, in no call, calls operation op whose lock steps are body.
call(t, op, body) ==
    /\ ~aborted
    /\ thread[t] = Idle
    /\ thread' = [thread EXCEPT ![t] = [op |-> op, todo |-> PoolCall(body)]]
    /\ UNCHANGED <<poolvars, replacer, aborted, last, lock_owner>>

call_new_page(t) ==
    \E free_frame, some \in BOOLEAN :
        call(t, "new_page", new_page_locks(free_frame, some))

call_fetch_page(t) ==
    \E hit, free_frame, some \in BOOLEAN :
        call(t, "fetch_page", fetch_page_locks(hit, free_frame, some))

call_unpin_page(t) ==
    \E frame_id \in Frames, found, should_evict \in BOOLEAN :
        call(t, "unpin_page", unpin_page_locks(frame_id, found, should_evict))

call_flush_page(t) ==
    \E frame_id \in Frames, found \in BOOLEAN :
        call(t, "flush_page", flush_page_locks(frame_id, found))

call_flush_all_pages(t) ==
    \E S \in SUBSET Frames : \E frame_ids \in Orders(S) :
        call(t, "flush_all_pages", flush_all_pages_locks(frame_ids))

call_delete_page(t) ==
    \E found \in BOOLEAN : call(t, "delete_page", delete_page_locks(found))

\* The lock step thread t is at, if it is in a call.
InCall(t) == thread[t].todo # <<>>
NextStep(t) == Head(thread[t].todo)

\* Thread t has done its step: the call returns after the last one.
Advance(t) ==
    thread' = [thread EXCEPT ![t] =
                  IF Len(@.todo) = 1 THEN Idle ELSE [@ EXCEPT !.todo = Tail(@)]]

\* RwLock::write() returns the guard: nobody holds the lock.
acquire(t) ==
    /\ ~aborted
    /\ InCall(t)
    /\ NextStep(t).a = "acquire"
    /\ lock_owner[NextStep(t).l] = NoThread
    /\ lock_owner' = [lock_owner EXCEPT ![NextStep(t).l] = t]
    /\ Advance(t)
    /\ UNCHANGED <<poolvars, replacer, aborted, last>>

\* RwLock::write() on a lock the calling thread holds itself either blocks
\* for ever (no step) or panics; the panic unwinds through the pool's guard.
acquire_held(t) ==
    /\ ~aborted
    /\ InCall(t)
    /\ NextStep(t).a = "acquire"
    /\ lock_owner[NextStep(t).l] = t
    /\ aborted' = TRUE
    /\ last' = Call(thread[t].op, "panic")
    /\ UNCHANGED <<poolvars, replacer, lockvars>>

\* The drop of a guard.
release(t) ==
    /\ ~aborted
    /\ InCall(t)
    /\ NextStep(t).a = "release"
    /\ lock_owner' = [lock_owner EXCEPT ![NextStep(t).l] = NoThread]
    /\ Advance(t)
    /\ UNCHANGED <<poolvars, replacer, aborted, last>>

\* A caller takes the content write lock of a page handle it got from
\* fetch_page, outside any call of the pool.
lock_content(t, frame_id) ==
    /\ ~aborted
    /\ thread[t] = Idle
    /\ lock_owner[PageLock(frame_id)] = NoThread
    /\ lock_owner' = [lock_owner EXCEPT ![PageLock(frame_id)] = t]
    /\ UNCHANGED <<poolvars, replacer, aborted, last, thread>>

\* The caller drops that guard.
unlock_content(t, frame_id) ==
    /\ ~aborted
    /\ thread[t] = Idle
    /\ lock_owner[PageLock(frame_id)] = t
    /\ lock_owner' = [lock_owner EXCEPT ![PageLock(frame_id)] = NoThread]
    /\ UNCHANGED <<poolvars, replacer, aborted, last, thread>>

\* Threads calling the pool's operations, lock step by lock step.
NextLocks ==
    \/ \E t \in Threads : call_new_page(t)
    \/ \E t \in Threads : call_fetch_page(t)
    \/ \E t \in Threads : call_unpin_page(t)
    \/ \E t \in Threads : call_flush_page(t)
    \/ \E t \in Threads : call_flush_all_pages(t)
    \/ \E t \in Threads : call_delete_page(t)
    \/ \E t \in Threads : acquire(t)
    \/ \E t \in Threads : acquire_held(t)
    \/ \E t \in Threads : release(t)
    \/ \E t \in Threads, frame_id \in Frames : lock_content(t, frame_id)
    \/ \E t \in Threads, frame_id \in Frames : unlock_content(t, frame_id)

SpecLocks == Init /\ [][NextLocks]_vars

\* ---------------------------------------------------------------- claims
\* The frames of the page-table entries.
TableFrames == { page_table[p].frame_id : p \in DOMAIN page_table }

\* The page ids that entered the page table in this step, which only
\* new_page and fetch_page (on a miss) do.
Installed == (DOMAIN page_table') \ (DOMAIN page_table)

\* The page that the slot of frame f holds (the invalid page for a slot the
\* vector does not have yet).
SlotPage(f) == IF f < Len(pages) THEN pages[f + 1] ELSE InvalidPage

\* C1: a pinned page's frame is never reused: new_page and fetch_page never
\* install a page into a frame whose current page is in the page table with
\* pin_count > 0.
C1_PinnedFrameNeverReused ==
    [][\A p \in Installed : \A q \in DOMAIN page_table :
          (page_table[q].frame_id = page_table'[p].frame_id
           /\ SlotPage(page_table[q].frame_id).page_id = q)
          => page_table[q].pin_count = 0]_vars

\* C2: when new_page or fetch_page takes its frame from evict and the page in
\* that frame is dirty, that page is on disk (written through write_page)
\* when the slot is overwritten.
C2_DirtyVictimWrittenBack ==
    [][\A p \in Installed :
          LET old == SlotPage(page_table'[p].frame_id)
          IN  (free_list = <<>> /\ old.page_id # INVALID_PAGE_ID /\ old.is_dirty)
              => disk'[old.page_id] = old.data]_vars

\* C3: after every operation no two page ids of the page table map to the
\* same frame, and every entry p -> f has slot f holding page p.
C3_PageTableMatchesFrames ==
    /\ \A p, q \in DOMAIN page_table :
           p # q => page_table[p].frame_id # page_table[q].frame_id
    /\ \A p \in DOMAIN page_table : SlotPage(page_table[p].frame_id).page_id = p

\* C4: after every operation |page_table| + |free_list| = pool_size.
C4_TablePlusFreeIsPoolSize ==
    Cardinality(DOMAIN page_table) + Len(free_list) = PoolSize

\* How often frame f is in the free list.
FreeCount(f) == Cardinality({ i \in DOMAIN free_list : free_list[i] = f })

\* C5: after every operation every frame is either in the free list, exactly
\* once, or the frame of some page-table entry; never both, never neither.
C5_FrameFreeXorResident ==
    \A f \in Frames :
        \/ FreeCount(f) = 1 /\ f \notin TableFrames
        \/ FreeCount(f) = 0 /\ f \in TableFrames

\* C6: after every operation, for every page of the page table: pin_count > 0
\* means its frame's replacer node is not evictable, pin_count = 0 means its
\* frame has a replacer node that is evictable.
C6_PinnedIffNotEvictable ==
    \A p \in DOMAIN page_table :
        LET f == page_table[p].frame_id
        IN  /\ f \in DOMAIN replacer.node_store
            /\ replacer.node_store[f].is_evictable = (page_table[p].pin_count = 0)

\* C7: after every operation a frame has a node in the replacer's node store
\* if and only if it is the frame of a page-table entry.
C7_NodeIffResident ==
    \A f \in Frames : (f \in DOMAIN replacer.node_store) <=> (f \in TableFrames)

\* C8: after every operation replacer.size() is the number of page-table
\* entries whose pin_count is 0.
C8_SizeCountsUnpinned ==
    size(replacer) =
        Cardinality({ p \in DOMAIN page_table : page_table[p].pin_count = 0 })

\* Every page of the page table is pinned and no frame is free.
AllPinnedNoFree ==
    /\ free_list = <<>>
    /\ \A p \in DOMAIN page_table : page_table[p].pin_count > 0

\* C9: new_page, and fetch_page of a page id that is not in the page table,
\* return none if and only if the free list is empty and every page of the
\* page table has pin_count > 0, and they never panic.
C9_NoneIffAllPinned ==
    [][\A order \in Orders(DOMAIN replacer.node_store) :
          /\ new_page(order) =>
                 /\ last'.ret # "panic"
                 /\ (last'.ret = "none") <=> AllPinnedNoFree
          /\ \A page_id \in Fetchable \ DOMAIN page_table :
                 fetch_page(page_id, order) =>
                     /\ last'.ret # "panic"
                     /\ (last'.ret = "none") <=> AllPinnedNoFree]_vars

\* No slot holds page_id: its frame was evicted and reused since it was loaded.
NotInAnySlot(page_id) == \A i \in DOMAIN pages : pages[i].page_id # page_id

\* Content was written through a handle and flushed for page_id: the disk
\* holds an image of it that is not the initial one.
FlushedContent(page_id) == disk[page_id] # 0

\* C10: a page that was flushed, whose frame was then evicted and reused,
\* fetched again with fetch_page(page_id): the handle returned holds the image
\* last written to disk for page_id.
C10_RefetchReturnsDiskImage ==
    [][\A page_id \in Fetchable, order \in Orders(DOMAIN replacer.node_store) :
          (/\ FlushedContent(page_id)
           /\ NotInAnySlot(page_id)
           /\ fetch_page(page_id, order)
           /\ last'.ret = "some")
          => LET handle == pages'[page_table'[page_id].frame_id + 1]
             IN  /\ handle.page_id = page_id
                 /\ handle.data = disk[page_id]]_vars

\* ------------------------------------------------------ eviction policy
\* The evictable nodes of r with fewer than K recorded accesses.
InfTier(r) ==
    { f \in DOMAIN r.node_store :
        r.node_store[f].is_evictable /\ Len(r.node_store[f].history) < K }

\* The evictable nodes of r.
EvictableNodes(r) == { f \in DOMAIN r.node_store : r.node_store[f].is_evictable }

\* f has the smallest oldest recorded timestamp of the infinite tier of r.
OldestFirstAccess(r, f) ==
    /\ f \in InfTier(r)
    /\ \A g \in InfTier(r) :
          Head(r.node_store[f].history) <= Head(r.node_store[g].history)

C11_PoolReusesOldestFirstAccess ==
    [][\A order \in Orders(DOMAIN replacer.node_store) :
          (new_page(order) /\ free_list = <<>> /\ InfTier(replacer) # {})
          => \A page_id \in Installed :
                OldestFirstAccess(replacer, page_table'[page_id].frame_id)]_vars

\* current_timestamp minus the timestamp of the K-th most recent access of f.
KDistance(r, f) ==
    LET history == r.node_store[f].history
    IN  r.current_timestamp - history[Len(history) - K + 1]

\* C12: when every evictable node has at least K recorded accesses, evict
\* returns the evictable frame that maximizes current_timestamp minus the
\* timestamp of its K-th most recent access, the same frame for every
\* iteration order of the node store.
C12_FiniteTierMaxDistance ==
    [][\A order \in Orders(DOMAIN replacer.node_store) :
          (/\ do_evict(order)
           /\ InfTier(replacer) = {}
           /\ EvictableNodes(replacer) # {})
          => \E f \in EvictableNodes(replacer) :
                /\ \A g \in EvictableNodes(replacer) :
                      KDistance(replacer, f) >= KDistance(replacer, g)
                /\ \A o \in Orders(DOMAIN replacer.node_store) :
                      evict(replacer, o).ret = f
                /\ last'.ret = "some"
                /\ DOMAIN replacer'.node_store = (DOMAIN replacer.node_store) \ {f}]_vars

\* evict can act on a store whose evictable nodes, at least two, all have K
\* recorded accesses, beside a node that is not evictable.
C12_Witness ==
    /\ ~aborted
    /\ InfTier(replacer) = {}
    /\ Cardinality(EvictableNodes(replacer)) >= 2
    /\ DOMAIN replacer.node_store # EvictableNodes(replacer)
    /\ ENABLED (\E order \in Orders(DOMAIN replacer.node_store) : do_evict(order))

C14_UnpinOverwritesDirty ==
    [][\A page_id \in PageIds, is_dirty \in BOOLEAN :
          (unpin_page(page_id, is_dirty) /\ last'.ret = "true")
          => get_is_dirty(pages', page_table', page_id) = is_dirty]_vars

\* unpin_page has just returned true for the only page of the table, which is
\* now dirty and keeps a pin: the call was unpin(p, true) on a page with two
\* pins, and unpin(p, false) can follow.
C14_Witness ==
    /\ last = Call("unpin_page", "true")
    /\ \E p \in PageIds :
          /\ DOMAIN page_table = {p}
          /\ page_table[p].pin_count = 1
          /\ get_is_dirty(pages, page_table, p)
          /\ ENABLED unpin_page(p, FALSE)

\* ------------------------------------------------------------ flush_page
\* page_id is resident: the page table maps it to a frame whose slot holds it.
Resident(page_id) ==
    /\ page_id \in DOMAIN page_table
    /\ SlotPage(page_table[page_id].frame_id).page_id = page_id

\* flush_page(page_id) on a resident page: the disk gets the page's content
\* whatever its dirty flag, the flag is cleared, no other slot changes.
FlushWritesAndCleans(page_id) ==
    LET frame_id == page_table[page_id].frame_id
    IN  /\ disk' = [disk EXCEPT ![page_id] = pages[frame_id + 1].data]
        /\ pages' = [pages EXCEPT ![frame_id + 1].is_dirty = FALSE]

\* C15 (resident half): flush_page on a resident page writes it and clears
\* its flag.
C15_FlushResident ==
    [][\A page_id \in PageIds :
          (flush_page(page_id) /\ Resident(page_id))
          => FlushWritesAndCleans(page_id)]_vars

\* C15: flush_page(page_id) on a resident page writes the page to disk
\* regardless of its dirty flag and clears the flag; on a page_id that is not
\* resident it has no effect; in both cases the page table (so every pin
\* count), the free list and all replacer state are unchanged.
C15_FlushContract ==
    [][\A page_id \in PageIds :
          flush_page(page_id)
          => /\ UNCHANGED <<page_table, free_list, replacer>>
             /\ IF Resident(page_id)
                THEN FlushWritesAndCleans(page_id)
                ELSE UNCHANGED <<pages, disk>>]_vars

\* ----------------------------------------------------------- delete_page
\* C16: delete_page(page_id) on a page of the page table with pin_count > 0
\* returns false; the page stays in the table with the same pin_count, the
\* slots, the free list and the replacer are unchanged, and the page is not
\* deallocated on disk.
C16_DeletePinnedRefused ==
    [][\A page_id \in PageIds :
          (/\ delete_page(page_id)
           /\ page_id \in DOMAIN page_table
           /\ page_table[page_id].pin_count > 0)
          => /\ last'.ret = "false"
             /\ UNCHANGED <<page_table, pages, free_list, replacer, disk,
                            deallocated>>]_vars

\* delete_page has just returned false while the only page of the table is
\* resident with pin_count 1 and nothing was deallocated.
C16_Witness ==
    /\ last = Call("delete_page", "false")
    /\ deallocated = {}
    /\ \E p \in PageIds :
          /\ DOMAIN page_table = {p}
          /\ Resident(p)
          /\ page_table[p].pin_count = 1
          /\ ENABLED delete_page(p)

\* C17: delete_page(page_id) on a resident page with pin_count = 0 returns
\* true and, as one step, removes the page from the page table, resets its
\* slot to an invalid page, pushes its frame to the back of the free list,
\* removes the frame's node from the replacer (size() drops by one, no
\* iteration order lets evict return the frame), and deallocates the page.
C17_DeleteUnpinned ==
    [][\A page_id \in PageIds :
          (/\ delete_page(page_id)
           /\ Resident(page_id)
           /\ page_table[page_id].pin_count = 0)
          => LET frame_id == page_table[page_id].frame_id
             IN  /\ last'.ret = "true"
                 /\ page_table' = MapRemove(page_table, page_id)
                 /\ pages'[frame_id + 1] = InvalidPage
                 /\ free_list' = Append(free_list, frame_id)
                 /\ page_id \in deallocated'
                 /\ frame_id \notin DOMAIN replacer'.node_store
                 /\ (frame_id \in DOMAIN replacer.node_store
                        => size(replacer') = size(replacer) - 1)
                 /\ \A o \in Orders(DOMAIN replacer'.node_store) :
                       evict(replacer', o).ret # frame_id]_vars

\* C18: delete_page called with a page_id that is not in the page table
\* aborts: it returns no value.
C18_DeleteUnknownAborts ==
    [][\A page_id \in PageIds :
          (delete_page(page_id) /\ page_id \notin DOMAIN page_table)
          => (aborted' /\ last'.ret = "panic")]_vars

\* ----------------------------------------------------------------- locks
\* Thread t holds lock l.
Holds(t, l) == lock_owner[l] = t

\* Thread t takes lock l in this step.
Takes(t, l) == lock_owner[l] # t /\ lock_owner'[l] = t

\* C19: locks are acquired in the order pool lock, replacer lock, disk-manager
\* lock: no thread acquires the replacer lock while it holds the disk-manager
\* lock, nor the pool lock while it holds either of them.
C19_LockOrder ==
    [][\A t \in Threads :
          /\ Takes(t, ReplacerLock) => ~Holds(t, DiskLock)
          /\ Takes(t, PoolLock) => ~Holds(t, ReplacerLock) /\ ~Holds(t, DiskLock)]_vars

\* Thread t waits for a lock that some thread holds.
Blocked(t) ==
    /\ InCall(t)
    /\ NextStep(t).a = "acquire"
    /\ lock_owner[NextStep(t).l] # NoThread

\* Thread t waits for a lock whose holder waits in turn, n times over: with
\* n = NumThreads the chain of waiting threads closes on itself.
RECURSIVE WaitChain(_, _)
WaitChain(t, n) ==
    /\ Blocked(t)
    /\ (n = 0 \/ WaitChain(lock_owner[NextStep(t).l], n - 1))

Deadlocked(t) == WaitChain(t, NumThreads)

\* A thread in a pool operation, holding the pool lock, waits for a page
\* content lock.
WaitsOnContentUnderPoolLock(t) ==
    /\ Holds(t, PoolLock)
    /\ Blocked(t)
    /\ \E frame_id \in Frames : NextStep(t).l = PageLock(frame_id)

\* C20 (first half): a pool operation never waits on a page content lock while
\* the pool lock is held.
C20_NoWaitOnContentLock == \A t \in Threads : ~WaitsOnContentUnderPoolLock(t)

\* C20: no deadlock is reachable when callers hold the content lock of a page
\* they have pinned and call unpin_page, flush_page or flush_all_pages: no
\* thread waits for a lock in a chain of waiting threads that closes on itself,
\* so every operation can return.
C20_NoDeadlock == \A t \in Threads : ~Deadlocked(t)

\* ------------------------------------------------------------ fetch_page
\* C21: a successful fetch_page(page_id) returns the handle of the frame slot
\* that holds the page with that page_id, never the handle of a slot holding
\* a different page, also when page_id's frame was evicted and reused before.
C21_FetchReturnsOwnSlot ==
    [][\A page_id \in Fetchable, order \in Orders(DOMAIN replacer.node_store) :
          (fetch_page(page_id, order) /\ last'.ret = "some")
          => LET handle == pages'[page_table'[page_id].frame_id + 1]
             IN  handle.page_id = page_id]_vars

\* C21 on a miss: a fetch_page that installs page_id returns its own slot.
C21_FetchMissReturnsOwnSlot ==
    [][\A page_id \in Fetchable, order \in Orders(DOMAIN replacer.node_store) :
          (/\ fetch_page(page_id, order)
           /\ last'.ret = "some"
           /\ page_id \notin DOMAIN page_table)
          => LET handle == pages'[page_table'[page_id].frame_id + 1]
             IN  handle.page_id = page_id]_vars

\* ----------------------------------------------------------- the replacer
\* C22: after every sequence of record_access, set_evictable, evict and remove
\* calls, curr_size (the value of size()) is the number of nodes of the node
\* store with is_evictable = true; it is never below 0, and evict never
\* panics on the decrement.
C22_SizeCountsEvictable ==
    /\ size(replacer) = Cardinality(EvictableNodes(replacer))
    /\ size(replacer) >= 0
    /\ last # Call("evict", "panic")

\* remove has just returned and left evictable nodes beside one that is not;
\* no history was ever trimmed, yet an access is held by no node: a node that
\* had been accessed was taken out of the store.
C22_Witness ==
    /\ last = Call("remove", "unit")
    /\ size(replacer) >= 1
    /\ DOMAIN replacer.node_store # EvictableNodes(replacer)
    /\ \A f \in DOMAIN replacer.node_store :
          Len(replacer.node_store[f].history) < K
    /\ \E ts \in 0 .. replacer.current_timestamp - 1 :
          \A f \in DOMAIN replacer.node_store :
             \A i \in DOMAIN replacer.node_store[f].history :
                replacer.node_store[f].history[i] # ts

\* C23: evict returns none if and only if no node is evictable, and then
\* changes nothing; otherwise it returns the frame id of a node that was
\* evictable, removes exactly that node from the node store, decrements
\* curr_size by exactly 1, and leaves every other node and current_timestamp
\* unchanged.
C23_EvictContract ==
    [][\A order \in Orders(DOMAIN replacer.node_store) :
          do_evict(order)
          => IF EvictableNodes(replacer) = {}
             THEN /\ last'.ret = "none"
                  /\ replacer' = replacer
             ELSE /\ last'.ret = "some"
                  /\ \E f \in EvictableNodes(replacer) :
                        /\ evict(replacer, order).ret = f
                        /\ replacer'.node_store = MapRemove(replacer.node_store, f)
                  /\ replacer'.curr_size = replacer.curr_size - 1
                  /\ replacer'.current_timestamp = replacer.current_timestamp
                  /\ replacer'.max_size = replacer.max_size]_vars

\* evict has just returned a frame and left an evictable node and a node that
\* is not evictable in the store.
C23_Witness ==
    /\ last = Call("evict", "some")
    /\ EvictableNodes(replacer) # {}
    /\ DOMAIN replacer.node_store # EvictableNodes(replacer)
    /\ InfTier(replacer) = {}

\* evict has just returned none from a store that holds nodes.
C23_WitnessNone ==
    /\ last = Call("evict", "none")
    /\ DOMAIN replacer.node_store # {}

\* The timestamps of a history are in strictly increasing order, oldest first.
StrictlyIncreasing(history) ==
    \A i, j \in DOMAIN history : i < j => history[i] < history[j]

\* C24: record_access(frame_id) with frame_id < max_size creates a node with
\* is_evictable = false and an empty history if none exists, then appends the
\* current timestamp, dropping the oldest entry first when the history holds K
\* timestamps; every history then holds at most K timestamps in strictly
\* increasing order, and no other node changes. With frame_id >= max_size it
\* aborts.
C24_RecordAccessContract ==
    [][\A frame_id \in FrameArgs :
          do_record_access(frame_id)
          => IF frame_id >= replacer.max_size
             THEN /\ aborted'
                  /\ last'.ret = "panic"
                  /\ replacer' = replacer
             ELSE LET old == IF frame_id \in DOMAIN replacer.node_store
                             THEN replacer.node_store[frame_id]
                             ELSE [history |-> <<>>, is_evictable |-> FALSE]
                      kept == IF Len(old.history) = K
                              THEN Tail(old.history) ELSE old.history
                      new == replacer'.node_store[frame_id]
                  IN  /\ ~aborted'
                      /\ DOMAIN replacer'.node_store =
                             (DOMAIN replacer.node_store) \cup {frame_id}
                      /\ new.is_evictable = old.is_evictable
                      /\ new.history = Append(kept, replacer.current_timestamp)
                      /\ \A f \in (DOMAIN replacer.node_store) \ {frame_id} :
                            replacer'.node_store[f] = replacer.node_store[f]
                      /\ \A f \in DOMAIN replacer'.node_store :
                            LET history == replacer'.node_store[f].history
                            IN  /\ Len(history) \in 1 .. K
                                /\ StrictlyIncreasing(history)
                                /\ history[Len(history)] < replacer'.current_timestamp]_vars

\* record_access has just returned: the node it touched holds K timestamps up
\* to the latest one, so that the next record_access on it, which can act,
\* drops the oldest; beside it a node created with fewer than K accesses that
\* is not evictable.
C24_Witness ==
    /\ last = Call("record_access", "unit")
    /\ \E f, g \in DOMAIN replacer.node_store :
          /\ Len(replacer.node_store[f].history) = K
          /\ replacer.node_store[f].history[K] = replacer.current_timestamp - 1
          /\ ENABLED do_record_access(f)
          /\ Len(replacer.node_store[g].history) < K
          /\ ~replacer.node_store[g].is_evictable

\* record_access has just aborted on an invalid frame id.
C24_WitnessAbort ==
    /\ last = Call("record_access", "panic")
    /\ aborted

\* C25: set_evictable(frame_id, e) changes nothing when no node exists for
\* frame_id or when the node's flag already equals e; when the flag differs it
\* sets the flag to e and changes curr_size by exactly +1 (e true) or -1
\* (e false); it never creates a node and never changes a history or
\* current_timestamp.
C25_SetEvictableContract ==
    [][\A frame_id \in FrameArgs, e \in BOOLEAN :
          do_set_evictable(frame_id, e)
          => /\ DOMAIN replacer'.node_store = DOMAIN replacer.node_store
             /\ \A f \in DOMAIN replacer.node_store :
                   replacer'.node_store[f].history = replacer.node_store[f].history
             /\ replacer'.current_timestamp = replacer.current_timestamp
             /\ IF frame_id \notin DOMAIN replacer.node_store
                   \/ replacer.node_store[frame_id].is_evictable = e
                THEN replacer' = replacer
                ELSE /\ ~aborted'
                     /\ replacer' =
                            [replacer EXCEPT
                                !.node_store[frame_id].is_evictable = e,
                                !.curr_size = IF e THEN @ + 1 ELSE @ - 1]]_vars

\* set_evictable has just returned; every node of the store, more than one, is
\* evictable, and set_evictable(f, false) can act on each.
C25_Witness ==
    /\ last = Call("set_evictable", "unit")
    /\ Cardinality(DOMAIN replacer.node_store) >= 2
    /\ EvictableNodes(replacer) = DOMAIN replacer.node_store
    /\ size(replacer) = Cardinality(DOMAIN replacer.node_store)
    /\ \A f \in DOMAIN replacer.node_store : ENABLED do_set_evictable(f, FALSE)

\* The recorded accesses of r: the places (frame, index) of its histories.
Accesses(r) ==
    { x \in (DOMAIN r.node_store) \X (1 .. K) :
        x[2] <= Len(r.node_store[x[1]].history) }

\* Any two recorded accesses of r carry distinct timestamps, all of them
\* below current_timestamp.
DistinctTimestamps(r) ==
    /\ \A x, y \in Accesses(r) :
          x # y => r.node_store[x[1]].history[x[2]] # r.node_store[y[1]].history[y[2]]
    /\ \A x \in Accesses(r) :
          r.node_store[x[1]].history[x[2]] < r.current_timestamp

\* C26: current_timestamp never decreases and is never reset: every
\* record_access that returns increases it by exactly 1, and evict, remove and
\* set_evictable leave it unchanged, so any two recorded accesses carry
\* distinct timestamps, the later call the larger one.
C26_ClockMonotonic ==
    [][/\ replacer'.current_timestamp >= replacer.current_timestamp
       /\ \A frame_id \in FrameArgs :
             (do_record_access(frame_id) /\ ~aborted')
             => /\ replacer'.current_timestamp = replacer.current_timestamp + 1
                /\ replacer'.node_store[frame_id].history[
                       Len(replacer'.node_store[frame_id].history)]
                     = replacer.current_timestamp
       /\ (\/ \E order \in Orders(DOMAIN replacer.node_store) : do_evict(order)
           \/ \E frame_id \in FrameArgs : do_remove(frame_id)
           \/ \E frame_id \in FrameArgs, e \in BOOLEAN : do_set_evictable(frame_id, e))
          => replacer'.current_timestamp = replacer.current_timestamp
       /\ DistinctTimestamps(replacer')]_vars

\* evict has just emptied a store that had recorded more than K accesses: the
\* clock stands where they left it.
C26_Witness ==
    /\ last = Call("evict", "some")
    /\ DOMAIN replacer.node_store = {}
    /\ replacer.current_timestamp > K

====
